---- MODULE Spec2Model ----
(***************************************************************************)
(* Model of src/migrate.py: migrate_redis_keys (the scan loop, the per-key *)
(* routing and transfer, the pipeline flush, the exception handlers) and   *)
(* process_large_keys (the thread that writes the large-key manifest).     *)
(*                                                                         *)
(* The two Redis servers are outside the program.  Their replies are drawn *)
(* when the program asks for them and are recorded (pages, srcSize,        *)
(* srcTtl), so that one run sees one unchanged, finite source keyspace.    *)
(* The source keys are 1..NumKeys and are enumerated in that order.        *)
(***************************************************************************)
EXTENDS Integers, Sequences, FiniteSets

\* ---- bounds of the model ----
NumKeys == 3
MaxPages == 3
MaxTTL == 1

\* ---- program constants ----
size_limit == 10485760

Keys == 1..NumKeys
\* a reply of MEMORY USAGE: None (no size known) or one integer
None == <<>>
Bytes(n) == <<n>>

\* what MEMORY USAGE replies for a key when it does not raise: the keys of the
\* unchanged source exist, so the reply is a size, at the limit or just over it
SizeReplies == {Bytes(size_limit), Bytes(size_limit + 1)}
\* what TTL replies for an existing key: -1 (no expiration) or whole seconds
TTLReplies == {-1, 0, MaxTTL}

\* type(key) and dump(key) of the source: opaque to the program
TypeOf(k) == IF k % 2 = 1 THEN "string" ELSE "hash"
Dump(k) == [type |-> TypeOf(k), data |-> k]

VARIABLES
    pc,          \* position of migrate_redis_keys
    cursor,      \* local cursor
    keys,        \* local keys: the batch of the last scan call
    i,           \* position of "for key in keys"
    pipe,        \* commands queued on the target pipeline
    large_keys,  \* local large_keys
    target,      \* the target keyspace: key -> [value, ttl], for the keys it holds
    manifest,    \* lines of the large-key file
    log,         \* per-key error messages printed (both threads)
    errors,      \* which except clause of migrate_redis_keys ran
    cause,       \* which call raised into that except clause
    reported,    \* "Key migration completed successfully!" was printed
    tpc,         \* position of process_large_keys
    j,           \* position of "for key_info in large_keys"
    threads,     \* number of threading.Thread.start() calls
    pages,       \* the key lists the scan calls returned, in call order
    srcSize,     \* per key, the MEMORY USAGE reply the source gave ({}: not asked)
    srcTtl,      \* per key, the TTL reply the source gave ({}: not asked)
    applied,     \* restore commands the target executed
    layout,      \* the replies the source gives to the scan calls, in call order
    prev         \* how the earlier runs of the program ended

vars == <<pc, cursor, keys, i, pipe, large_keys, target, manifest, log, errors,
          cause, reported, tpc, j, threads, pages, srcSize, srcTtl, applied,
          layout, prev>>

mainLocals == <<cursor, keys, i, pipe, large_keys>>
threadVars == <<manifest, tpc, j>>
sourceVars == <<pages, srcSize, srcTtl>>
runVars == <<layout, prev>>

\* ---- helpers ----
Names(s) == {s[x].name : x \in DOMAIN s}
RECURSIVE SumLen(_)
SumLen(s) == IF s = <<>> THEN 0 ELSE Len(Head(s)) + SumLen(Tail(s))
Returned == SumLen(pages)
Enumerated == 1..Returned

\* line 78: source_redis.memory_usage(key) or 0
KeySize(r) == IF r = None THEN 0 ELSE r[1]

\* line 79: if key_size > size_limit
IsLargeGE(key_size) == key_size >= size_limit
IsLarge(key_size) == key_size > size_limit

\* lines 24 and 86: ttl = 0 if ttl == -1 else ttl * 1000
NormTTLNoSentinel(ttl) == ttl * 1000
NormTTL(ttl) == IF ttl = -1 THEN 0 ELSE ttl * 1000

\* replies of the unchanged source: the recorded one, if the key was asked before
SizeReplyOf(k) == IF srcSize[k] = {} THEN SizeReplies ELSE srcSize[k]
TtlReplyOf(k) == IF srcTtl[k] = {} THEN TTLReplies ELSE srcTtl[k]

Init ==
    /\ pc = "connect"
    /\ cursor = 0
    /\ keys = <<>>
    /\ i = 1
    /\ pipe = <<>>
    /\ large_keys = <<>>
    /\ target = <<>>
    /\ manifest = <<>>
    /\ log = {}
    /\ errors = "none"
    /\ cause = "none"
    /\ reported = FALSE
    /\ tpc = "idle"
    /\ j = 1
    /\ threads = 0
    /\ pages = <<>>
    /\ srcSize = [k \in Keys |-> {}]
    /\ srcTtl = [k \in Keys |-> {}]
    /\ applied = {}
    /\ layout = <<>>
    /\ prev = <<>>

\* ---- migrate_redis_keys ----

\* as ConnectOK, but the initial cursor 0 is taken for the end of the scan
ConnectOKSkipsScan ==
    /\ pc = "connect"
    /\ pc' = "start_thread"
    /\ cursor' = 0
    /\ large_keys' = <<>>
    /\ UNCHANGED <<keys, i, pipe, target, log, errors, cause, reported,
                   threads, applied>>
    /\ UNCHANGED threadVars
    /\ UNCHANGED sourceVars
    /\ UNCHANGED runVars

\* lines 57-67: the clients are built (no network traffic), cursor = 0,
\* large_keys = [], and dbsize() is the first call that reaches the source
ConnectOK ==
    /\ pc = "connect"
    /\ pc' = "scan"
    /\ cursor' = 0
    /\ large_keys' = <<>>
    /\ UNCHANGED <<keys, i, pipe, target, log, errors, cause, reported,
                   threads, applied>>
    /\ UNCHANGED threadVars
    /\ UNCHANGED sourceVars
    /\ UNCHANGED runVars

\* lines 66, 104-107: dbsize() raises AuthenticationError or another RedisError
ConnectFails ==
    /\ pc = "connect"
    /\ \E e \in {"AuthenticationError", "RedisError"} : errors' = e
    /\ cause' = "dbsize"
    /\ pc' = "failed"
    /\ UNCHANGED <<target, log, reported, threads, applied>>
    /\ UNCHANGED mainLocals
    /\ UNCHANGED threadVars
    /\ UNCHANGED sourceVars
    /\ UNCHANGED runVars

\* lines 71-75: scan(cursor, count) returns (cursor, keys); an empty key
\* list leaves the loop.  The source returns cursor 0 only with its last keys
\* and ends the iteration within MaxPages calls; unchanged, it replies to a
\* call as it replied to the same call before (layout).
ScanOK ==
    /\ pc = "scan"
    /\ Len(pages) < MaxPages
    /\ \E n \in 0..(NumKeys - Returned), c \in {0, Len(pages) + 1} :
         LET page == [x \in 1..n |-> Returned + x] IN
         /\ c = 0 => Returned + n = NumKeys
         /\ c # 0 => Len(pages) + 1 < MaxPages
         /\ Len(pages) < Len(layout) =>
              layout[Len(pages) + 1] = [keys |-> page, cursor |-> c]
         /\ layout' = IF Len(pages) < Len(layout) THEN layout
                       ELSE Append(layout, [keys |-> page, cursor |-> c])
         /\ cursor' = c
         /\ keys' = page
         /\ pages' = Append(pages, page)
         /\ IF n = 0
              THEN /\ pc' = "start_thread"
                   /\ UNCHANGED <<i, pipe>>
              ELSE /\ pc' = "keys"
                   /\ i' = 1
                   /\ pipe' = <<>>
    /\ UNCHANGED <<large_keys, target, log, errors, cause, reported, threads,
                   applied, srcSize, srcTtl>>
    /\ UNCHANGED threadVars
    /\ UNCHANGED prev

\* as ScanFails, but the target is emptied
ScanFailsRollsBack ==
    /\ pc = "scan"
    /\ Len(pages) < MaxPages
    /\ errors' = "RedisError"
    /\ cause' = "scan"
    /\ pc' = "failed"
    /\ target' = <<>>
    /\ UNCHANGED <<log, reported, threads, applied>>
    /\ UNCHANGED mainLocals
    /\ UNCHANGED threadVars
    /\ UNCHANGED sourceVars
    /\ UNCHANGED runVars

\* as ScanFails, but the manifest thread is started all the same
ScanFailsStartsThread ==
    /\ pc = "scan"
    /\ Len(pages) < MaxPages
    /\ errors' = "RedisError"
    /\ cause' = "scan"
    /\ pc' = "start_thread"
    /\ UNCHANGED <<target, log, reported, threads, applied>>
    /\ UNCHANGED mainLocals
    /\ UNCHANGED threadVars
    /\ UNCHANGED sourceVars
    /\ UNCHANGED runVars

\* lines 71, 106-107: scan raises; the RedisError clause ends the function
ScanFails ==
    /\ pc = "scan"
    /\ Len(pages) < MaxPages
    /\ errors' = "RedisError"
    /\ cause' = "scan"
    /\ pc' = "failed"
    /\ UNCHANGED <<target, log, reported, threads, applied>>
    /\ UNCHANGED mainLocals
    /\ UNCHANGED threadVars
    /\ UNCHANGED sourceVars
    /\ UNCHANGED runVars

\* line 76: the for loop moves to the next key, or to pipe.execute()
NextKey ==
    /\ i' = i + 1
    /\ pc' = IF i = Len(keys) THEN "execute" ELSE "keys"

AtKey == pc = "keys" /\ i \in 1..Len(keys)

\* lines 78, 88-89: memory_usage raises; the error is printed, the key is left
KeySizeFails ==
    /\ AtKey
    /\ srcSize[keys[i]] = {}
    /\ log' = log \cup {[key |-> keys[i], call |-> "memory_usage", by |-> "main"]}
    /\ NextKey
    /\ UNCHANGED <<cursor, keys, pipe, large_keys, target, errors, cause,
                   reported, threads, applied>>
    /\ UNCHANGED threadVars
    /\ UNCHANGED sourceVars
    /\ UNCHANGED runVars

\* as KeyDeferred, but the manifest thread is started at the first large key
KeyDeferredStartsThread ==
    /\ AtKey
    /\ \E r \in SizeReplyOf(keys[i]) :
         /\ IsLarge(KeySize(r))
         /\ srcSize' = [srcSize EXCEPT ![keys[i]] = {r}]
         /\ large_keys' = Append(large_keys, [name |-> keys[i], size |-> KeySize(r)])
    /\ NextKey
    /\ tpc' = IF tpc = "idle" THEN "open" ELSE tpc
    /\ threads' = IF tpc = "idle" THEN threads + 1 ELSE threads
    /\ UNCHANGED <<cursor, keys, pipe, target, log, errors, cause, reported,
                   applied, pages, srcTtl, manifest, j>>
    /\ UNCHANGED runVars

\* lines 78-81: the key is over the limit; it is recorded and skipped
KeyDeferred ==
    /\ AtKey
    /\ \E r \in SizeReplyOf(keys[i]) :
         /\ IsLarge(KeySize(r))
         /\ srcSize' = [srcSize EXCEPT ![keys[i]] = {r}]
         /\ large_keys' = Append(large_keys, [name |-> keys[i], size |-> KeySize(r)])
    /\ NextKey
    /\ UNCHANGED <<cursor, keys, pipe, target, log, errors, cause, reported,
                   threads, applied, pages, srcTtl>>
    /\ UNCHANGED threadVars
    /\ UNCHANGED runVars

\* as KeyDumpFails, but the exception ends the run
KeyDumpFailsAborts ==
    /\ AtKey
    /\ \E r \in SizeReplyOf(keys[i]) :
         /\ ~IsLarge(KeySize(r))
         /\ srcSize' = [srcSize EXCEPT ![keys[i]] = {r}]
    /\ log' = log \cup {[key |-> keys[i], call |-> "dump", by |-> "main"]}
    /\ errors' = "Exception"
    /\ pc' = "failed"
    /\ UNCHANGED <<cursor, keys, i, pipe, large_keys, target, cause,
                   reported, threads, applied, pages, srcTtl>>
    /\ UNCHANGED threadVars
    /\ UNCHANGED runVars

\* lines 84, 88-89: dump raises; the error is printed, nothing is queued
KeyDumpFails ==
    /\ AtKey
    /\ \E r \in SizeReplyOf(keys[i]) :
         /\ ~IsLarge(KeySize(r))
         /\ srcSize' = [srcSize EXCEPT ![keys[i]] = {r}]
    /\ log' = log \cup {[key |-> keys[i], call |-> "dump", by |-> "main"]}
    /\ NextKey
    /\ UNCHANGED <<cursor, keys, pipe, large_keys, target, errors, cause,
                   reported, threads, applied, pages, srcTtl>>
    /\ UNCHANGED threadVars
    /\ UNCHANGED runVars

\* lines 85, 88-89: ttl raises; the error is printed, nothing is queued
KeyTtlFails ==
    /\ AtKey
    /\ srcTtl[keys[i]] = {}
    /\ \E r \in SizeReplyOf(keys[i]) :
         /\ ~IsLarge(KeySize(r))
         /\ srcSize' = [srcSize EXCEPT ![keys[i]] = {r}]
    /\ log' = log \cup {[key |-> keys[i], call |-> "ttl", by |-> "main"]}
    /\ NextKey
    /\ UNCHANGED <<cursor, keys, pipe, large_keys, target, errors, cause,
                   reported, threads, applied, pages, srcTtl>>
    /\ UNCHANGED threadVars
    /\ UNCHANGED runVars

\* as KeyQueued, but the restore is queued in front of the others
KeyQueuedPrepends ==
    /\ AtKey
    /\ \E r \in SizeReplyOf(keys[i]), t \in TtlReplyOf(keys[i]) :
         /\ ~IsLarge(KeySize(r))
         /\ srcSize' = [srcSize EXCEPT ![keys[i]] = {r}]
         /\ srcTtl' = [srcTtl EXCEPT ![keys[i]] = {t}]
         /\ pipe' = <<[name |-> keys[i], ttl |-> NormTTL(t),
                      value |-> Dump(keys[i])]>> \o pipe
    /\ NextKey
    /\ UNCHANGED <<cursor, keys, large_keys, target, log, errors, cause,
                   reported, threads, applied, pages>>
    /\ UNCHANGED threadVars
    /\ UNCHANGED runVars

\* lines 78-87: the key is at or under the limit; its restore is queued
KeyQueued ==
    /\ AtKey
    /\ \E r \in SizeReplyOf(keys[i]), t \in TtlReplyOf(keys[i]) :
         /\ ~IsLarge(KeySize(r))
         /\ srcSize' = [srcSize EXCEPT ![keys[i]] = {r}]
         /\ srcTtl' = [srcTtl EXCEPT ![keys[i]] = {t}]
         /\ pipe' = Append(pipe, [name |-> keys[i], ttl |-> NormTTL(t),
                                  value |-> Dump(keys[i])])
    /\ NextKey
    /\ UNCHANGED <<cursor, keys, large_keys, target, log, errors, cause,
                   reported, threads, applied, pages>>
    /\ UNCHANGED threadVars
    /\ UNCHANGED runVars

\* the target after it executed the queued commands at the positions in ok
RestoredKeepsExisting(ok) ==
    [k \in DOMAIN target \cup {pipe[x].name : x \in ok} |->
        IF k \in DOMAIN target
          THEN target[k]
          ELSE LET x == CHOOSE y \in ok : pipe[y].name = k
               IN  [value |-> pipe[x].value, ttl |-> pipe[x].ttl]]

Restored(ok) ==
    [k \in DOMAIN target \cup {pipe[x].name : x \in ok} |->
        IF \E x \in ok : pipe[x].name = k
          THEN LET x == CHOOSE y \in ok : pipe[y].name = k
               IN  [value |-> pipe[x].value, ttl |-> pipe[x].ttl]
          ELSE target[k]]

\* as FlushOK, without "if cursor == 0: break"
FlushOKIgnoresCursor ==
    /\ pc = "execute"
    /\ target' = Restored(DOMAIN pipe)
    /\ applied' = applied \cup {pipe[x] : x \in DOMAIN pipe}
    /\ pc' = "scan"
    /\ UNCHANGED <<log, errors, cause, reported, threads>>
    /\ UNCHANGED mainLocals
    /\ UNCHANGED threadVars
    /\ UNCHANGED sourceVars
    /\ UNCHANGED runVars

\* lines 90-95: pipe.execute() succeeds (an empty pipeline sends nothing);
\* the loop ends when the cursor is 0
FlushOK ==
    /\ pc = "execute"
    /\ target' = Restored(DOMAIN pipe)
    /\ applied' = applied \cup {pipe[x] : x \in DOMAIN pipe}
    /\ pc' = IF cursor = 0 THEN "start_thread" ELSE "scan"
    /\ UNCHANGED <<log, errors, cause, reported, threads>>
    /\ UNCHANGED mainLocals
    /\ UNCHANGED threadVars
    /\ UNCHANGED sourceVars
    /\ UNCHANGED runVars

\* lines 90, 106-107: the target rejects some of the queued restores.  The
\* pipeline is a MULTI/EXEC transaction: the target executes the other
\* commands, execute() raises the first error reply outside the per-key try
FlushRejected ==
    /\ pc = "execute"
    /\ \E bad \in (SUBSET DOMAIN pipe) \ {{}} :
         /\ target' = Restored(DOMAIN pipe \ bad)
         /\ applied' = applied \cup {pipe[x] : x \in DOMAIN pipe \ bad}
    /\ errors' = "RedisError"
    /\ cause' = "restore"
    /\ pc' = "failed"
    /\ UNCHANGED <<log, reported, threads>>
    /\ UNCHANGED mainLocals
    /\ UNCHANGED threadVars
    /\ UNCHANGED sourceVars
    /\ UNCHANGED runVars

\* lines 90, 104-107: the target cannot be reached or refuses the password
\* when the first commands are sent to it; nothing is executed
FlushUnreachable ==
    /\ pc = "execute"
    /\ pipe # <<>>
    /\ \E e \in {"AuthenticationError", "RedisError"} : errors' = e
    /\ cause' = "execute"
    /\ pc' = "failed"
    /\ UNCHANGED <<target, log, reported, threads, applied>>
    /\ UNCHANGED mainLocals
    /\ UNCHANGED threadVars
    /\ UNCHANGED sourceVars
    /\ UNCHANGED runVars

\* lines 98-99: threading.Thread(target=process_large_keys, ...).start()
StartThread ==
    /\ pc = "start_thread"
    /\ tpc' = "open"
    /\ threads' = threads + 1
    /\ pc' = "report"
    /\ UNCHANGED <<target, log, errors, cause, reported, applied, manifest, j>>
    /\ UNCHANGED mainLocals
    /\ UNCHANGED sourceVars
    /\ UNCHANGED runVars

\* line 101: print("Key migration completed successfully!")
Report ==
    /\ pc = "report"
    /\ reported' = TRUE
    /\ pc' = "join"
    /\ UNCHANGED <<target, log, errors, cause, threads, applied>>
    /\ UNCHANGED mainLocals
    /\ UNCHANGED threadVars
    /\ UNCHANGED sourceVars
    /\ UNCHANGED runVars

\* line 102: large_key_thread.join() returns once the thread has ended
Join ==
    /\ pc = "join"
    /\ tpc = "done"
    /\ pc' = "done"
    /\ UNCHANGED <<target, log, errors, cause, reported, threads, applied>>
    /\ UNCHANGED mainLocals
    /\ UNCHANGED threadVars
    /\ UNCHANGED sourceVars
    /\ UNCHANGED runVars

\* ---- process_large_keys ----

\* line 17: open(target_db_store, "w") truncates the file
ThreadOpen ==
    /\ tpc = "open"
    /\ manifest' = <<>>
    /\ j' = 1
    /\ tpc' = "loop"
    /\ UNCHANGED <<pc, target, log, errors, cause, reported, threads, applied>>
    /\ UNCHANGED mainLocals
    /\ UNCHANGED sourceVars
    /\ UNCHANGED runVars

AtEntry == tpc = "loop" /\ j \in 1..Len(large_keys)

\* lines 19-28: type, dump and ttl are asked again and the line is written
ThreadEntry ==
    /\ AtEntry
    /\ \E t \in TtlReplyOf(large_keys[j].name) :
         /\ srcTtl' = [srcTtl EXCEPT ![large_keys[j].name] = {t}]
         /\ manifest' = Append(manifest,
                [name |-> large_keys[j].name, type |-> TypeOf(large_keys[j].name),
                 ttl |-> NormTTL(t), size |-> large_keys[j].size])
    /\ j' = j + 1
    /\ UNCHANGED <<pc, target, log, errors, cause, reported, tpc, threads,
                   applied, pages, srcSize>>
    /\ UNCHANGED mainLocals
    /\ UNCHANGED runVars

\* as ThreadEntryFails, but the exception leaves the for loop
ThreadEntryFailsEndsLoop ==
    /\ AtEntry
    /\ log' = log \cup {[key |-> large_keys[j].name, call |-> "large_key", by |-> "thread"]}
    /\ tpc' = "done"
    /\ UNCHANGED <<pc, target, errors, cause, reported, manifest, j, threads,
                   applied>>
    /\ UNCHANGED mainLocals
    /\ UNCHANGED sourceVars
    /\ UNCHANGED runVars

\* lines 20-23, 30-31: type, dump or ttl raises; the error is printed
ThreadEntryFails ==
    /\ AtEntry
    /\ log' = log \cup {[key |-> large_keys[j].name, call |-> "large_key", by |-> "thread"]}
    /\ j' = j + 1
    /\ UNCHANGED <<pc, target, errors, cause, reported, manifest, tpc, threads,
                   applied>>
    /\ UNCHANGED mainLocals
    /\ UNCHANGED sourceVars
    /\ UNCHANGED runVars

\* line 32: the loop is over, the file is closed, the thread ends
ThreadFinish ==
    /\ tpc = "loop"
    /\ j > Len(large_keys)
    /\ tpc' = "done"
    /\ UNCHANGED <<pc, target, log, errors, cause, reported, manifest, j,
                   threads, applied>>
    /\ UNCHANGED mainLocals
    /\ UNCHANGED sourceVars
    /\ UNCHANGED runVars

Next ==
    \/ ConnectOK
    \/ ConnectFails
    \/ ScanOK
    \/ ScanFails
    \/ KeySizeFails
    \/ KeyDeferred
    \/ KeyDumpFails
    \/ KeyTtlFails
    \/ KeyQueued
    \/ FlushOK
    \/ FlushRejected
    \/ FlushUnreachable
    \/ StartThread
    \/ Report
    \/ Join
    \/ ThreadOpen
    \/ ThreadEntry
    \/ ThreadEntryFails
    \/ ThreadFinish

Spec == Init /\ [][Next]_vars

\* ---- the program run a second time ----

\* what the target may hold before the first run: nothing, or an older value
\* with an older expiration under every key
StaleEntry == [value |-> [type |-> "string", data |-> 0], ttl |-> 5000]
InitialTargets == {<<>>, [k \in Keys |-> StaleEntry]}

InitRerun ==
    /\ pc = "connect"
    /\ cursor = 0
    /\ keys = <<>>
    /\ i = 1
    /\ pipe = <<>>
    /\ large_keys = <<>>
    /\ target \in InitialTargets
    /\ manifest = <<>>
    /\ log = {}
    /\ errors = "none"
    /\ cause = "none"
    /\ reported = FALSE
    /\ tpc = "idle"
    /\ j = 1
    /\ threads = 0
    /\ pages = <<>>
    /\ srcSize = [k \in Keys |-> {}]
    /\ srcTtl = [k \in Keys |-> {}]
    /\ applied = {}
    /\ layout = <<>>
    /\ prev = <<>>

\* lines 112-128: the script is run again after a run that ended; the two
\* servers and the manifest file are as the first run left them
Rerun ==
    /\ pc \in {"done", "failed"}
    /\ prev = <<>>
    /\ prev' = <<[pc |-> pc, target |-> target, manifest |-> manifest]>>
    /\ pc' = "connect"
    /\ cursor' = 0
    /\ keys' = <<>>
    /\ i' = 1
    /\ pipe' = <<>>
    /\ large_keys' = <<>>
    /\ log' = {}
    /\ errors' = "none"
    /\ cause' = "none"
    /\ reported' = FALSE
    /\ tpc' = "idle"
    /\ j' = 1
    /\ threads' = 0
    /\ pages' = <<>>
    /\ applied' = {}
    /\ UNCHANGED <<target, manifest, srcSize, srcTtl, layout>>

\* two runs in a row in which no per-key call fails; a run may still end on
\* a failed scan call or a rejected restore
NextRerun ==
    \/ ConnectOK
    \/ ScanOK
    \/ ScanFails
    \/ KeyDeferred
    \/ KeyQueued
    \/ FlushOK
    \/ FlushRejected
    \/ StartThread
    \/ Report
    \/ Join
    \/ ThreadOpen
    \/ ThreadEntry
    \/ ThreadFinish
    \/ Rerun

SpecRerun == InitRerun /\ [][NextRerun]_vars

\* one run in which neither thread stops while it has a step to take: every
\* store call returns or raises, and the interpreter keeps scheduling both
FairSpec == Spec /\ WF_vars(Next)

TypeOK ==
    /\ pc \in {"connect", "scan", "keys", "execute", "start_thread", "report",
               "join", "done", "failed"}
    /\ tpc \in {"idle", "open", "loop", "done"}
    /\ cursor \in 0..MaxPages
    /\ Returned <= NumKeys

\* ---- what became of a key ----
MainErrors(call) == {e.key : e \in {x \in log : x.by = "main" /\ x.call = call}}
SizeFailed == MainErrors("memory_usage")
DumpFailed == MainErrors("dump")
Logged == {e.key : e \in log}
Queued == Names(pipe) \cup {w.name : w \in applied}
Deferred == Names(large_keys)
InManifest == Names(manifest)
AfterScanning == pc \in {"start_thread", "report", "join", "done"}

\* the lifetime a key has: "none", or milliseconds.  RESTORE reads ttl 0 as
\* "no expiration"; TTL replies -1 for a key without expiration
TargetLifetime(ms) == IF ms = 0 THEN <<"none">> ELSE <<"ms", ms>>
SourceLifetime(t) == IF t = -1 THEN <<"none">> ELSE <<"ms", t * 1000>>
OnTarget(k) ==
    /\ k \in DOMAIN target
    /\ target[k].value = Dump(k)
    /\ \A t \in srcTtl[k] : TargetLifetime(target[k].ttl) = SourceLifetime(t)
Outcomes(k) ==
    (IF OnTarget(k) THEN {"transferred"} ELSE {})
      \cup (IF k \in InManifest THEN {"manifest"} ELSE {})
      \cup (IF k \in Logged THEN {"failed"} ELSE {})

\* C1: after a run that ends without a fatal error, every source key is in
\* exactly one of: present on the target with its value, type and lifetime;
\* recorded in the manifest; logged as failed.
C1_EveryKeyExactlyOneOutcome ==
    pc = "done" => \A k \in Keys : Cardinality(Outcomes(k)) = 1

\* C2: the scan loop leaves Scanning without a fatal error only when the
\* cursor it last received is the terminal cursor 0.
C2_ScansUntilTerminalCursor ==
    AfterScanning => cursor = 0

\* C3: a restore the target rejects when the batch is flushed does not abort
\* the run.
C3_WriteRejectionIsolated ==
    cause = "restore" => pc # "failed"

\* C4: a key whose size query failed is routed as transferable: its restore
\* is queued in the batch.
C4_SizeFailureRoutedTransferable ==
    \A k \in SizeFailed : k \in Queued

C6_NoRollback ==
    cause = "scan" =>
      /\ pc = "failed"
      /\ \A w \in applied :
           /\ w.name \in DOMAIN target
           /\ target[w.name] = [value |-> w.value, ttl |-> w.ttl]

\* C6: when an enumeration call fails after earlier batches were flushed,
\* the run is Failed, every restore the target executed is still in place
\* (no rollback), and nothing is enumerated or written from then on.
C6_EnumerationFailureStops ==
    /\ []C6_NoRollback
    /\ [][pc = "failed" => /\ pc' = "failed"
                           /\ UNCHANGED <<target, applied, pages, pipe, tpc>>]_vars

C6_Witness ==
    /\ cause = "scan"
    /\ pc = "failed"
    /\ Len(pages) >= 1
    /\ Cardinality(applied) >= 2

\* C7: the success message is printed only after process_large_keys returned.
C7_ReportAfterThreadFinished ==
    reported => tpc = "done"

\* never two manifest threads, one in a run that ends Done, and none while
\* the main pass is still scanning, routing or flushing
C8_StartedAfterMainPass ==
    /\ threads <= 1
    /\ pc = "done" => threads = 1
    /\ tpc # "idle" => pc \in {"report", "join", "done"}

C9_StrictSizeRouting ==
    \A k \in Keys : \A r \in srcSize[k] :
      /\ KeySize(r) <= size_limit =>
           /\ k \notin Deferred
           /\ k \in Queued \cup MainErrors("dump") \cup MainErrors("ttl")
      /\ KeySize(r) >= size_limit + 1 =>
           /\ k \in Deferred
           /\ k \notin Queued
           /\ k \notin DOMAIN target

C9_Witness ==
    /\ srcSize[1] = {Bytes(size_limit)}
    /\ 1 \in DOMAIN target
    /\ srcSize[2] = {Bytes(size_limit + 1)}
    /\ 2 \in InManifest

\* the ttl in milliseconds that belongs to the TTL reply t
Normalised(t, ms) ==
    /\ t = -1 => ms = 0
    /\ t >= 0 => ms = t * 1000

\* C10: a restore is queued with ttl 0 for a key without expiration (TTL
\* reply -1) and with N * 1000 for a key with N seconds left (N >= 0); the
\* ttl of a manifest line is normalised the same way.
C10_LifetimeNormalised ==
    /\ \A x \in DOMAIN pipe : \A t \in srcTtl[pipe[x].name] :
         Normalised(t, pipe[x].ttl)
    /\ \A k \in DOMAIN target : \A t \in srcTtl[k] : Normalised(t, target[k].ttl)
    /\ \A x \in DOMAIN manifest : \A t \in srcTtl[manifest[x].name] :
         Normalised(t, manifest[x].ttl)

C10_Witness ==
    /\ 1 \in DOMAIN target /\ srcTtl[1] = {-1} /\ target[1].ttl = 0
    /\ 2 \in DOMAIN target /\ srcTtl[2] = {MaxTTL} /\ target[2].ttl = MaxTTL * 1000
    /\ \E x \in DOMAIN manifest : srcTtl[manifest[x].name] = {-1}
                                    /\ manifest[x].ttl = 0

\* ---- the second run, the manifest thread, the scan loop ----
ThreadFailed == {e.key : e \in {x \in log : x.by = "thread"}}
TwoRunsDone == prev # <<>> /\ prev[1].pc = "done" /\ pc = "done"

\* C11: after two complete runs over the unchanged source the target is as
\* the first run left it, whatever it held before, and every restored key
\* holds the source's value: the restore replaces what was there.
C11_Idempotent ==
    TwoRunsDone =>
      /\ target = prev[1].target
      /\ \A w \in applied :
           /\ w.name \in DOMAIN target
           /\ target[w.name] = [value |-> Dump(w.name), ttl |-> w.ttl]

C11_Witness ==
    /\ TwoRunsDone
    /\ Len(layout) >= 2
    /\ Cardinality(applied) >= 2
    /\ \E k \in DOMAIN target : target[k] = StaleEntry

\* the number of lines the manifest thread of this run has written
WrittenThisRun ==
    IF tpc = "idle" THEN 0 ELSE (j - 1) - Cardinality(ThreadFailed)

\* C12: after a run, Done or Failed, the manifest holds the lines of that
\* run only.
C12_ManifestFreshEachRun ==
    pc \in {"done", "failed"} => Len(manifest) = WrittenThisRun

\* the names and sizes of the first n entries of large_keys, without the
\* entries whose queries raised in the manifest thread
ExpectedLines(n) ==
    LET Kept(e) == e.name \notin ThreadFailed
    IN  SelectSeq(SubSeq(large_keys, 1, n), Kept)
WrittenLines == [x \in DOMAIN manifest |->
                    [name |-> manifest[x].name, size |-> manifest[x].size]]

\* C13: a deferred entry whose query raises in the manifest thread loses its
\* line only: the other entries each have one line, in large_keys order, and
\* the thread goes through the whole list.
C13_EntryFailureIsolated ==
    tpc \in {"loop", "done"} =>
      /\ WrittenLines = ExpectedLines(j - 1)
      /\ tpc = "done" => j = Len(large_keys) + 1

C13_Witness ==
    /\ tpc = "done"
    /\ Len(large_keys) = 3
    /\ ThreadFailed = {2}
    /\ Len(manifest) = 2

\* C14: a target that cannot be reached or refuses the password fails the
\* run before any scan, size query or dump is made on the source.
C14_TargetFailureWhileConnecting ==
    cause = "execute" =>
      /\ pages = <<>>
      /\ \A k \in Keys : srcSize[k] = {} /\ srcTtl[k] = {}

\* line 101: what the run prints when it ends without a fatal error
FinalReport ==
    IF reported THEN [message |-> "Key migration completed successfully!"]
    ELSE [message |-> ""]

\* C15: a run that reaches Done prints a final report with the counts
\* scanned, transferred, deferred and failed.
C15_FinalReportHasCounts ==
    pc = "done" =>
      {"scanned", "transferred", "deferred", "failed"} \subseteq DOMAIN FinalReport

\* C16: every run ends: in Failed, or in Done with the manifest thread
\* finished and joined.
C16_Terminates ==
    <>(pc = "failed" \/ (pc = "done" /\ tpc = "done"))

C16_Witness ==
    /\ pc = "done"
    /\ tpc = "done"
    /\ Len(pages) = MaxPages
    /\ manifest # <<>>
    /\ applied # {}

\* the loop is left only after a scan call, and is not at a scan call again
\* once a call returned cursor 0
C17_ScanCalledFirst ==
    /\ AfterScanning => pages # <<>>
    /\ (pc = "scan" /\ pages # <<>>) => cursor # 0

\* C17: a run that gets past connecting makes at least one scan call, and
\* makes no scan call after one returned cursor 0.
C17_TerminalCursorOnce ==
    /\ []C17_ScanCalledFirst
    /\ [][(pages # <<>> /\ cursor = 0) => pages' = pages]_vars

C17_Witness ==
    /\ pc = "done"
    /\ cursor = 0
    /\ Len(pages) = 2
    /\ Returned = NumKeys

\* C18: restores are queued in the order the scan call returned the keys,
\* only for keys of the current batch, after the restores of the earlier
\* batches were executed; none is left queued when the next scan call is made.
C18_WritesInEnumerationOrder ==
    /\ \A x, y \in DOMAIN pipe : x < y => pipe[x].name < pipe[y].name
    /\ pc \in {"keys", "execute"} =>
         /\ Names(pipe) \subseteq {keys[x] : x \in 1..(i - 1)}
         /\ \A w \in applied : w.name < keys[1]
    /\ (pc = "scan" /\ pages # <<>>) =>
         \A x \in DOMAIN pipe : pipe[x] \in applied

C18_Witness ==
    /\ pc = "execute"
    /\ Len(pipe) >= 2
    /\ applied # {}

\* the manifest as the run found it
ManifestBefore == IF prev = <<>> THEN <<>> ELSE prev[1].manifest

\* C19: when a scan call or a flush raises, the manifest thread is never
\* started and the manifest is left as it was, also when large_keys already
\* has entries.
C19_AbortSkipsManifest ==
    cause \in {"scan", "restore"} =>
      /\ tpc = "idle"
      /\ threads = 0
      /\ manifest = ManifestBefore

C19_Witness ==
    /\ pc = "failed"
    /\ cause = "scan"
    /\ large_keys # <<>>
    /\ Len(manifest) > Len(large_keys)
====
